---- MODULE Spec2Model ----
(***************************************************************************)
(* A model of beancount_import/source/dwight.py: the CSV loaders           *)
(* (load_transactions, load_balances), the key extractors, the import      *)
(* result synthesizer and DwightSource.prepare.                            *)
(*                                                                         *)
(* Representation.                                                         *)
(*  - A path names a directory or a CSV file; a CSV file is its header and *)
(*    a sequence of rows; a row is a record of its cells                   *)
(*    Date, Description, Currency and ZhanghaoWu (the signed amount        *)
(*    column 'Zhanghao Wu').                                               *)
(*  - An amount cell is the sequence of its characters, each a string of   *)
(*    one character below U+0100.                                          *)
(*  - A date cell is the triple <<y, m, d>> of the three numeric fields    *)
(*    of the text 'y-m-d'; strptime decides whether it is a calendar date. *)
(*  - A Decimal is [kind, neg, digits, exp]: a finite number is its sign,  *)
(*    the decimal digits of its coefficient without trailing zeros and     *)
(*    its exponent (Decimal equality is by value); an infinity is its      *)
(*    sign; there is a quiet and a signaling NaN.  Coefficients and        *)
(*    exponents are of any size, held as sequences of decimal digits.      *)
(*  - A possibly absent value (posting.meta, an exception) is a sequence   *)
(*    of length at most one.                                               *)
(***************************************************************************)
EXTENDS Integers, Sequences, FiniteSets, Bags, TLC

VARIABLES
    fieldnames,          \* the header of the export file (reader.fieldnames)
    csvfile,             \* the rows of the export file
    balances_directory,  \* the constructor's balances_directory: <<>> (None) or <<path>>
    balances_csv,        \* what the file system holds at that path: a directory or a CSV file
                         \* (not looked at when balances_directory is None)
    accounts,            \* journal.accounts: ledger account -> dwight_id metadata ("" when absent)
    journal,             \* journal.all_entries
    dwight_entries,      \* self.dwight_entries / the value returned by load_transactions
    balances,            \* self.balances / the value returned by load_balances
    raised,              \* [t, b, p]: the exception of load_transactions / load_balances / prepare (<<>>: none)
    called,              \* [t, b]: whether load_transactions / load_balances has run
    pc,                  \* "new", "loaded", "failed" (the constructor raised), then what
                         \* happened last: "prepared", "prepare_raised" or "accepted"
    results,             \* the SourceResults of the latest prepare
    missing_accounts,    \* prepare's local set, as it is when prepare returns
    run,                 \* number of prepare calls so far
    accepted             \* TRUE once the proposals of a prepare were accepted into the ledger

vars == <<fieldnames, csvfile, balances_directory, balances_csv, accounts, journal,
          dwight_entries, balances, raised, called, pc, results, missing_accounts, run, accepted>>

----------------------------------------------------------------------------
(* Bounds of the model *)

MaxRows == 3
MaxMainRows == 2
MaxLedger == 2
MaxRuns == 2

----------------------------------------------------------------------------
(* Generic helpers *)

SeqsUpTo(S, n) == UNION {[1..k -> S] : k \in 0..n}

Reverse_omitted(s) == s

\* list.reverse()
RECURSIVE Reverse(_)
Reverse(s) == IF s = <<>> THEN <<>> ELSE Append(Reverse(Tail(s)), Head(s))

Range(s) == {s[i] : i \in DOMAIN s}

RECURSIVE SeqToBag(_)
SeqToBag(s) == IF s = <<>> THEN EmptyBag ELSE SetToBag({Head(s)}) (+) SeqToBag(Tail(s))

\* every ordering of a finite set: the orders a Python set may be iterated in
Orderings(S) == {q \in [1..Cardinality(S) -> S] : Range(q) = S}

----------------------------------------------------------------------------
(* datetime.date *)

IsLeap(y) == (y % 4 = 0 /\ y % 100 # 0) \/ y % 400 = 0

DaysInMonth(y, m) ==
    IF m = 2 THEN (IF IsLeap(y) THEN 29 ELSE 28)
    ELSE IF m \in {4, 6, 9, 11} THEN 30 ELSE 31

strptime_ok_any_day(cell) ==
    /\ cell[1] \in 1..9999
    /\ cell[2] \in 1..12
    /\ cell[3] \in 1..31

\* datetime.datetime.strptime(cell, '%Y-%m-%d') succeeds
strptime_ok(cell) ==
    /\ cell[1] \in 1..9999
    /\ cell[2] \in 1..12
    /\ cell[3] \in 1..DaysInMonth(cell[1], cell[2])

\* datetime.datetime.strptime(cell, '%Y-%m-%d').date()
strptime(cell) == [year |-> cell[1], month |-> cell[2], day |-> cell[3]]

\* date.__lt__
DateLT(a, b) ==
    \/ a.year < b.year
    \/ a.year = b.year /\ a.month < b.month
    \/ a.year = b.year /\ a.month = b.month /\ a.day < b.day

\* datetime.date.max
date_max == [year |-> 9999, month |-> 12, day |-> 31]

\* d + datetime.timedelta(days=1): <<the next day>>, or <<>> when the sum raises
\* OverflowError('date value out of range')
timedelta_days1(d) ==
    IF d = date_max THEN <<>>
    ELSE IF d.day < DaysInMonth(d.year, d.month) THEN <<[d EXCEPT !.day = d.day + 1]>>
    ELSE IF d.month < 12 THEN <<[d EXCEPT !.month = d.month + 1, !.day = 1]>>
    ELSE <<[year |-> d.year + 1, month |-> 1, day |-> 1]>>

----------------------------------------------------------------------------
(* Integers of any size, as Python's int and the exponent of a Decimal are *)

Front(s) == SubSeq(s, 1, Len(s) - 1)

\* a natural number is its decimal digits, most significant first, without a leading
\* zero; zero is <<>>
RECURSIVE StripLeadingZeros(_)
StripLeadingZeros(m) == IF m # <<>> /\ m[1] = 0 THEN StripLeadingZeros(Tail(m)) ELSE m

RECURSIVE TrailingZeros(_)
TrailingZeros(m) == IF m # <<>> /\ m[Len(m)] = 0 THEN 1 + TrailingZeros(Front(m)) ELSE 0

RECURSIVE MagOfNat(_)
MagOfNat(n) == IF n = 0 THEN <<>> ELSE Append(MagOfNat(n \div 10), n % 10)

RECURSIVE NatOfMag(_)
NatOfMag(m) == IF m = <<>> THEN 0 ELSE 10 * NatOfMag(Front(m)) + m[Len(m)]

MagLess(a, b) ==
    \/ Len(a) < Len(b)
    \/ Len(a) = Len(b) /\ \E i \in DOMAIN a : a[i] < b[i] /\ \A j \in 1..(i - 1) : a[j] = b[j]

RECURSIVE MagAdd(_, _, _)
MagAdd(a, b, carry) ==
    IF a = <<>> /\ b = <<>> THEN (IF carry = 0 THEN <<>> ELSE <<carry>>)
    ELSE LET da == IF a = <<>> THEN 0 ELSE a[Len(a)]
             db == IF b = <<>> THEN 0 ELSE b[Len(b)]
             t == da + db + carry
         IN  Append(MagAdd(IF a = <<>> THEN a ELSE Front(a),
                           IF b = <<>> THEN b ELSE Front(b), t \div 10),
                    t % 10)

\* the digits of a - b for a >= b
RECURSIVE MagSubDigits(_, _, _)
MagSubDigits(a, b, borrow) ==
    IF a = <<>> THEN <<>>
    ELSE LET db == IF b = <<>> THEN 0 ELSE b[Len(b)]
             t == a[Len(a)] - db - borrow
         IN  Append(MagSubDigits(Front(a), IF b = <<>> THEN b ELSE Front(b),
                                 IF t < 0 THEN 1 ELSE 0),
                    IF t < 0 THEN t + 10 ELSE t)

MagSub(a, b) == StripLeadingZeros(MagSubDigits(a, b, 0))

\* an integer: its sign and its magnitude
Big(neg, mag) == [neg |-> neg /\ mag # <<>>, mag |-> mag]

BigOfInt(n) == IF n < 0 THEN Big(TRUE, MagOfNat(0 - n)) ELSE Big(FALSE, MagOfNat(n))

BigNeg(x) == Big(~x.neg, x.mag)

BigAdd(x, y) ==
    IF x.neg = y.neg THEN Big(x.neg, MagAdd(x.mag, y.mag, 0))
    ELSE IF MagLess(x.mag, y.mag) THEN Big(y.neg, MagSub(y.mag, x.mag))
    ELSE Big(x.neg, MagSub(x.mag, y.mag))

BigSub(x, y) == BigAdd(x, BigNeg(y))

BigLess(x, y) ==
    IF x.neg # y.neg THEN x.neg
    ELSE IF x.neg THEN MagLess(y.mag, x.mag)
    ELSE MagLess(x.mag, y.mag)

----------------------------------------------------------------------------
(* decimal.Decimal and beancount.core.number.D on the characters of a cell *)

\* A Decimal is held by what its equality sees: a finite number is its sign, the digits
\* of its coefficient without trailing zeros and its exponent (zero: no digits, exponent
\* 0, no sign); an infinity is its sign; a NaN carries neither sign nor payload.
Dec(kind, neg, digits, exp) == [kind |-> kind, neg |-> neg, digits |-> digits, exp |-> exp]

ZERO == Dec("finite", FALSE, <<>>, BigOfInt(0))

\* what a literal that Decimal rejects gives (decimal.InvalidOperation)
NotADecimal == Dec("error", FALSE, <<>>, BigOfInt(0))

\* the number (-1)^neg * mag * 10^exp
Canonical(neg, mag, exp) ==
    LET m == StripLeadingZeros(mag)
        t == TrailingZeros(m)
    IN  IF m = <<>> THEN ZERO
        ELSE Dec("finite", neg, SubSeq(m, 1, Len(m) - t), BigAdd(exp, BigOfInt(t)))

\* the number coef * 10^exp for machine integers coef and exp
Finite(coef, exp) ==
    Canonical(coef < 0, MagOfNat(IF coef < 0 THEN 0 - coef ELSE coef), BigOfInt(exp))

Digits == {"0", "1", "2", "3", "4", "5", "6", "7", "8", "9"}

DigitVal(c) ==
    CASE c = "0" -> 0 [] c = "1" -> 1 [] c = "2" -> 2 [] c = "3" -> 3 [] c = "4" -> 4
      [] c = "5" -> 5 [] c = "6" -> 6 [] c = "7" -> 7 [] c = "8" -> 8 [] c = "9" -> 9

DigitsVal(s) == StripLeadingZeros([i \in DOMAIN s |-> DigitVal(s[i])])

AllDigits(s) == \A i \in DOMAIN s : s[i] \in Digits

\* the letters of a Decimal literal are read in either case
Lower(c) ==
    CASE c = "E" -> "e" [] c = "I" -> "i" [] c = "N" -> "n" [] c = "F" -> "f"
      [] c = "T" -> "t" [] c = "Y" -> "y" [] c = "A" -> "a" [] c = "S" -> "s"
      [] OTHER -> c

LowerSeq(s) == [i \in DOMAIN s |-> Lower(s[i])]

Remove(s, chars) == SelectSeq(s, LAMBDA c : c \notin chars)

\* the characters below U+0100 that str.isspace holds for: U+0009 to U+000D, U+001C to
\* U+001F, U+0020, U+0085 and U+00A0
Whitespace == {" ", "\t", "\n", "\r", "\f", "", "", "", "", "", "", " "}

\* leading and trailing whitespace removed
RECURSIVE Strip(_)
Strip(s) ==
    IF s = <<>> THEN s
    ELSE IF s[1] \in Whitespace THEN Strip(Tail(s))
    ELSE IF s[Len(s)] \in Whitespace THEN Strip(Front(s))
    ELSE s

\* the index of the first c in s, or 0
IndexOf(s, c) ==
    IF \E i \in DOMAIN s : s[i] = c
    THEN CHOOSE i \in DOMAIN s : s[i] = c /\ \A j \in 1..(i - 1) : s[j] # c
    ELSE 0

\* an optionally signed run of digits, as the exponent of a literal
ExponentOk(s) ==
    /\ s # <<>>
    /\ IF s[1] \in {"-", "+"} THEN Tail(s) # <<>> /\ AllDigits(Tail(s)) ELSE AllDigits(s)

ExponentVal(s) ==
    IF s[1] = "-" THEN Big(TRUE, DigitsVal(Tail(s)))
    ELSE IF s[1] = "+" THEN Big(FALSE, DigitsVal(Tail(s)))
    ELSE Big(FALSE, DigitsVal(s))

\* decimal.MAX_EMAX and decimal.MIN_ETINY of a 64-bit build
MAX_EMAX == Big(FALSE, [i \in 1..18 |-> 9])

MIN_ETINY == Big(TRUE, <<1>> \o [i \in 1..17 |-> 9] \o <<7>>)

\* the number with coefficient digits mag and exponent exp is held exactly: the
\* constructor rejects a literal that the widest context would round or clamp
Exact(mag, exp) ==
    /\ ~BigLess(exp, MIN_ETINY)
    /\ ~BigLess(MAX_EMAX, IF mag = <<>> THEN exp ELSE BigAdd(exp, BigOfInt(Len(mag) - 1)))

\* a numeric literal: digits with an optional point, then an optional exponent after
\* the first 'e'
Numeric(s) ==
    LET e == IndexOf(s, "e")
        m == IF e = 0 THEN s ELSE SubSeq(s, 1, e - 1)
        x == SubSeq(s, e + 1, Len(s))
        p == IndexOf(m, ".")
        ip == IF p = 0 THEN m ELSE SubSeq(m, 1, p - 1)
        fp == IF p = 0 THEN <<>> ELSE SubSeq(m, p + 1, Len(m))
        mag == DigitsVal(ip \o fp)
        exp == BigSub(IF e = 0 THEN BigOfInt(0) ELSE ExponentVal(x), BigOfInt(Len(fp)))
    IN  IF /\ AllDigits(ip) /\ AllDigits(fp)
           /\ Len(ip) + Len(fp) > 0
           /\ e # 0 => ExponentOk(x)
        THEN IF Exact(mag, exp) THEN Canonical(FALSE, mag, exp) ELSE NotADecimal
        ELSE NotADecimal

\* an unsigned literal in lower case: 'inf', 'infinity', 'nan' or 'snan' (with optional
\* payload digits), or a numeric literal
Unsigned(s) ==
    IF s \in {<<"i", "n", "f">>, <<"i", "n", "f", "i", "n", "i", "t", "y">>}
    THEN Dec("inf", FALSE, <<>>, BigOfInt(0))
    ELSE IF Len(s) >= 3 /\ SubSeq(s, 1, 3) = <<"n", "a", "n">> /\ AllDigits(SubSeq(s, 4, Len(s)))
    THEN Dec("nan", FALSE, <<>>, BigOfInt(0))
    ELSE IF Len(s) >= 4 /\ SubSeq(s, 1, 4) = <<"s", "n", "a", "n">>
               /\ AllDigits(SubSeq(s, 5, Len(s)))
    THEN Dec("snan", FALSE, <<>>, BigOfInt(0))
    ELSE Numeric(s)

UnsignedOk(s) == Unsigned(s).kind # "error"

\* the value of an unsigned literal UnsignedOk accepts
UnsignedVal(s) == Unsigned(s)

\* the sign flipped (zero has none, a NaN stays the NaN it is)
Negated(d) ==
    IF d.kind = "inf" \/ (d.kind = "finite" /\ d.digits # <<>>) THEN [d EXCEPT !.neg = ~d.neg]
    ELSE d

\* decimal.Decimal(text): surrounding whitespace stripped, underscores removed, then
\* an optional sign and an unsigned literal, letters in either case.  Characters are
\* those below U+0100, so the decimal digits of other scripts do not occur.
Decimal(text) ==
    LET s == LowerSeq(Remove(Strip(text), {"_"}))
        signed == s # <<>> /\ s[1] \in {"-", "+"}
        body == IF signed THEN Tail(s) ELSE s
        u == Unsigned(body)
    IN  IF body = <<>> THEN NotADecimal
        ELSE IF signed /\ s[1] = "-" THEN Negated(u)
        ELSE u

\* D(s): Decimal() for '', else Decimal of s without its ',' and ' ';
\* NotADecimal stands for the ValueError D raises
D(s) == IF s = <<>> THEN ZERO ELSE Decimal(Remove(s, {",", " "}))

D_ok(s) == D(s).kind # "error"

\* decimal.getcontext(): prec, Emax, Emin and Etiny() of the default context, whose
\* rounding is ROUND_HALF_EVEN and which traps Overflow and InvalidOperation
prec == 28

Emax == 999999

Emin == 0 - 999999

Etiny == Emin - prec + 1

\* a finite non-zero d rounded to the context, as every arithmetic operation rounds its
\* result: [overflow, value], overflow when the rounded number exceeds Emax.  A number
\* that is neither above Emax nor wholly below Etiny has an exponent between
\* Etiny - prec and Emax, and is rounded half-even to prec digits and to Etiny.
fix(d) ==
    LET n == Len(d.digits)
    IN  IF BigLess(BigOfInt(Emax), BigAdd(d.exp, BigOfInt(n - 1)))
        THEN [overflow |-> TRUE, value |-> d]
        ELSE IF ~BigLess(d.exp, BigOfInt(Etiny)) /\ n <= prec
        THEN [overflow |-> FALSE, value |-> d]
        ELSE IF BigLess(d.exp, BigOfInt(Etiny - n))
        THEN [overflow |-> FALSE, value |-> ZERO]
        ELSE LET e == IF d.exp.neg THEN 0 - NatOfMag(d.exp.mag) ELSE NatOfMag(d.exp.mag)
                 top == e + n - prec
                 exp_min == IF top < Etiny THEN Etiny ELSE top
                 drop == exp_min - e
                 kept == SubSeq(d.digits, 1, n - drop)
                 first == d.digits[n - drop + 1]
                 last == IF kept = <<>> THEN 0 ELSE kept[Len(kept)]
                 up == first > 5 \/ (first = 5 /\ (drop >= 2 \/ last % 2 = 1))
                 coef == IF up THEN MagAdd(kept, <<1>>, 0) ELSE kept
             IN  IF drop <= 0 THEN [overflow |-> FALSE, value |-> d]
                 ELSE [overflow |-> exp_min + Len(coef) - 1 > Emax,
                       value |-> Canonical(d.neg, coef, BigOfInt(exp_min))]

\* -d: Decimal.__neg__ under the default context, NotADecimal when it raises
\* (InvalidOperation for a signaling NaN, Overflow when the rounded number exceeds Emax)
\* or when d itself is what a raise left
minus(d) ==
    IF d.kind \in {"snan", "error"} THEN NotADecimal
    ELSE IF d.kind = "finite" /\ d.digits # <<>>
         THEN LET f == fix(d) IN IF f.overflow THEN NotADecimal ELSE Negated(f.value)
    ELSE Negated(d)

\* sgn = row['Zhanghao Wu'][0]
\* number = D(row['Zhanghao Wu']) if sgn != '-' else -D(row['Zhanghao Wu'][1:])
\* NotADecimal when the line raises: the cell is empty, D raises or the minus raises
read_number(cell) ==
    IF cell = <<>> THEN NotADecimal
    ELSE IF cell[1] # "-" THEN D(cell)
    ELSE minus(D(Tail(cell)))

number_ok(cell) == read_number(cell).kind # "error"

number_of(cell) == read_number(cell)

\* number == ZERO returns (the comparison of a signaling NaN raises InvalidOperation)
compare_ok(number) == number.kind # "snan"

Amount(number, currency) == [number |-> number, currency |-> currency]

\* -amount returns
NegAmount_ok(a) == minus(a.number).kind # "error"

\* Amount.__neg__
NegAmount(a) == [a EXCEPT !.number = minus(a.number)]

----------------------------------------------------------------------------
(* Records *)

filename == "dwight.csv"

\* os.path.abspath
abspath(f) == <<"/", f>>

DwightEntry(account, date, amount, source_desc, fname, line) ==
    [account |-> account, date |-> date, amount |-> amount,
     source_desc |-> source_desc, filename |-> fname, line |-> line]

RawBalance(account, date, amount, fname, line) ==
    [account |-> account, date |-> date, amount |-> amount,
     filename |-> fname, line |-> line]

get_info(raw_entry) ==
    [type |-> "text/csv", filename |-> raw_entry.filename, line |-> raw_entry.line]

\* no exception; an exception is held as its cause (load_transactions re-raises the cause
\* wrapped in RuntimeError('CSV file has incorrect format', filename))
NoException == <<>>

\* what a path names: a directory, or a CSV file with its header and rows
Directory == [kind |-> "directory"]

File(names, rows) == [kind |-> "file", fieldnames |-> names, rows |-> rows]

\* what open(filename, 'r') raises when the path names a directory
IsADirectoryError(path) == <<[error |-> "Is a directory", value |-> path]>>

InvalidDate(cell) == <<[error |-> "Invalid date", value |-> cell]>>

BadAmount(cell) == <<[error |-> "Invalid amount", value |-> cell]>>

----------------------------------------------------------------------------
(* load_transactions *)

expected_field_names ==
    <<"Date", "Description", "Category", "Cost", "Currency", "Zhuohan Li", "Zhanghao Wu">>

HeaderMismatch(names) == <<[error |-> "Actual field names != expected field names", value |-> names]>>

skip_transaction_row_by_description(number, description) == description = "Total balance"

\* if number == ZERO or row['Description'] == 'Total balance': continue
skip_transaction_row(number, description) ==
    number = ZERO \/ description = "Total balance"

\* the rows from index i on (line_i = i - 1); entries is the list built so far.
\* The value is [entries, raised]: the list when the loop ends, or the exception.
RECURSIVE load_transactions_rows(_, _, _, _)
\* the body of the loop for the row at index i, whose amount cell reads as number
load_transactions_row(rows, i, entries, currency, number) ==
    LET row == rows[i]
    IN  IF number.kind = "error" THEN [entries |-> <<>>, raised |-> BadAmount(row.ZhanghaoWu)]
        ELSE IF ~compare_ok(number)
             THEN [entries |-> <<>>, raised |-> BadAmount(row.ZhanghaoWu)]
        ELSE IF skip_transaction_row(number, row.Description)
             THEN load_transactions_rows(rows, i + 1, entries, currency)
        ELSE IF ~strptime_ok(row.Date)
             THEN [entries |-> <<>>, raised |-> InvalidDate(row.Date)]
        ELSE load_transactions_rows(rows, i + 1,
                 Append(entries,
                        DwightEntry("Zhuohan Li", strptime(row.Date),
                                    Amount(number, currency),
                                    row.Description, abspath(filename), i)),
                 currency)

load_transactions_rows(rows, i, entries, currency) ==
    IF i > Len(rows) THEN [entries |-> entries, raised |-> NoException]
    ELSE load_transactions_row(rows, i, entries, currency, read_number(rows[i].ZhanghaoWu))

\* list.sort(key=lambda x: x.date): a stable sort, here by insertion
RECURSIVE InsertByDate(_, _)
InsertByDate(sorted, x) ==
    IF sorted = <<>> THEN <<x>>
    ELSE IF DateLT(x.date, sorted[Len(sorted)].date)
         THEN Append(InsertByDate(SubSeq(sorted, 1, Len(sorted) - 1), x), sorted[Len(sorted)])
         ELSE Append(sorted, x)

RECURSIVE sort_by_date(_)
sort_by_date(s) ==
    IF s = <<>> THEN <<>>
    ELSE InsertByDate(sort_by_date(SubSeq(s, 1, Len(s) - 1)), s[Len(s)])

\* entries.reverse(); entries.sort(key=lambda x: x.date), when the loop raised nothing
reversed_and_sorted(r) ==
    IF r.raised # NoException THEN r
    ELSE [entries |-> sort_by_date(Reverse(r.entries)), raised |-> NoException]

load_transactions(names, rows) ==
    IF names # expected_field_names
    THEN [entries |-> <<>>, raised |-> HeaderMismatch(names)]
    ELSE reversed_and_sorted(load_transactions_rows(rows, 1, <<>>, "USD"))

----------------------------------------------------------------------------
(* load_balances *)

RECURSIVE load_balances_rows(_, _, _, _)
\* the body of the loop for the 'Total balance' row at index i, whose amount cell reads
\* as number once its date has parsed
load_balances_row(path, rows, i, bals, number) ==
    LET row == rows[i]
    IN  IF ~strptime_ok(row.Date)
        THEN [entries |-> <<>>, raised |-> InvalidDate(row.Date)]
        ELSE IF number.kind = "error"
             THEN [entries |-> <<>>, raised |-> BadAmount(row.ZhanghaoWu)]
        ELSE load_balances_rows(path, rows, i + 1,
                 Append(bals,
                        RawBalance("Zhuohan Li", strptime(row.Date),
                                   Amount(number, row.Currency),
                                   abspath(path), i)))

load_balances_rows(path, rows, i, bals) ==
    IF i > Len(rows) THEN [entries |-> bals, raised |-> NoException]
    ELSE IF rows[i].Description # "Total balance"
         THEN load_balances_rows(path, rows, i + 1, bals)
    ELSE load_balances_row(path, rows, i, bals, read_number(rows[i].ZhanghaoWu))

\* load_balances(path) where the path names the file f
load_balances(path, f) ==
    IF f.kind = "directory"
    THEN [entries |-> <<>>, raised |-> IsADirectoryError(abspath(path))]
    ELSE IF f.fieldnames # expected_field_names
    THEN [entries |-> <<>>, raised |-> HeaderMismatch(f.fieldnames)]
    ELSE load_balances_rows(path, f.rows, 1, <<>>)

----------------------------------------------------------------------------
(* Key extractors and the import result synthesizer *)

FIXME_ACCOUNT == "Expenses:FIXME"

Posting(account, units, meta) == [account |-> account, units |-> units, meta |-> meta]

Transaction(date, narration, postings) ==
    [kind |-> "Transaction", date |-> date, narration |-> narration, postings |-> postings]

Balance(account, date, amount) ==
    [kind |-> "Balance", date |-> date, account |-> account, amount |-> amount]

ImportResult(date, info, entries) == [date |-> date, info |-> info, entries |-> entries]

_get_key_from_posting_no_desc(entry, posting, source_postings, source_desc, posting_date) ==
    <<posting.account, posting_date, posting.units, "">>

_get_key_from_posting(entry, posting, source_postings, source_desc, posting_date) ==
    <<posting.account, posting_date, posting.units, source_desc>>

_get_key_from_csv_entry(x) == <<x.account, x.date, x.amount, x.source_desc>>

\* what -dwight_entry.amount raises when the negated number exceeds the context's Emax
DecimalOverflow == <<[error |-> "decimal.Overflow"]>>

\* _make_import_result returns: -dwight_entry.amount does
_make_import_result_ok(dwight_entry) == NegAmount_ok(dwight_entry.amount)

_make_import_result(dwight_entry) ==
    ImportResult(
        dwight_entry.date,
        get_info(dwight_entry),
        <<Transaction(
            dwight_entry.date,
            dwight_entry.source_desc,
            <<Posting(dwight_entry.account, dwight_entry.amount,
                      <<[source_desc |-> dwight_entry.source_desc, date |-> dwight_entry.date]>>),
              Posting(FIXME_ACCOUNT, NegAmount(dwight_entry.amount), <<>>)>>)>>)

----------------------------------------------------------------------------
(* description_based_source: the account mapping and the reconciliation engine *)

NoId == ""

\* get_account_mapping(journal.accounts, 'dwight_id')
account_to_dwight_id(accts) == [a \in {x \in DOMAIN accts : accts[x] # NoId} |-> accts[a]]

dwight_id_to_account(accts) ==
    [id \in {accts[a] : a \in DOMAIN accts} \ {NoId} |-> CHOOSE a \in DOMAIN accts : accts[a] = id]

\* the (source_desc, date) pair a posting's metadata holds, if any, turned into its key
RECURSIVE posting_keys(_, _)
posting_keys(postings, account_set) ==
    IF postings = <<>> THEN <<>>
    ELSE LET p == Head(postings)
             rest == posting_keys(Tail(postings), account_set)
         IN  IF p.meta = <<>> \/ p.account \notin account_set THEN rest
             ELSE <<_get_key_from_posting(<<>>, p, <<>>, p.meta[1].source_desc, p.meta[1].date)>>
                      \o rest

\* the keys of every posting of the ledger's transactions on a mapped account
RECURSIVE journal_keys(_, _)
journal_keys(entries, account_set) ==
    IF entries = <<>> THEN <<>>
    ELSE LET e == Head(entries)
             rest == journal_keys(Tail(entries), account_set)
         IN  IF e.kind # "Transaction" THEN rest
             ELSE posting_keys(e.postings, account_set) \o rest

\* one linear pass over the raw entries; remaining: key -> postings not yet consumed
\* (a key whose amount is a NaN equals no key).  make_import_result is called for each
\* pending entry as the pass meets it; when it raises the pass ends there, with left
\* entries not yet classified (the one that raised included) and no posting reported
RECURSIVE match_entries(_, _, _)
match_entries(raw_entries, remaining, pending) ==
    IF raw_entries = <<>>
    THEN [pending |-> pending, invalid |-> remaining, raised |-> NoException, left |-> 0]
    ELSE LET x == Head(raw_entries)
             key == _get_key_from_csv_entry(x)
         IN  IF CopiesIn(key, remaining) > 0 /\ x.amount.number.kind # "nan"
             THEN match_entries(Tail(raw_entries), remaining (-) SetToBag({key}), pending)
             ELSE IF ~_make_import_result_ok(x)
                  THEN [pending |-> pending, invalid |-> EmptyBag, raised |-> DecimalOverflow,
                        left |-> Len(raw_entries)]
             ELSE match_entries(Tail(raw_entries), remaining,
                                Append(pending, _make_import_result(x)))

get_pending_and_invalid_entries(raw_entries, journal_entries, account_set) ==
    match_entries(raw_entries, SeqToBag(journal_keys(journal_entries, account_set)), <<>>)

----------------------------------------------------------------------------
(* DwightSource.prepare *)

\* the generator without its 'continue': an unmapped entry is yielded as it is
RECURSIVE get_converted_dwight_entries_no_continue(_, _, _)
get_converted_dwight_entries_no_continue(entries, id_to_account, missing) ==
    IF entries = <<>> THEN [entries |-> <<>>, missing |-> missing]
    ELSE LET raw == Head(entries)
             unmapped == raw.account \notin DOMAIN id_to_account
             r == get_converted_dwight_entries_no_continue(
                      Tail(entries), id_to_account,
                      IF unmapped THEN missing \cup {raw.account} ELSE missing)
         IN  [entries |-> <<IF unmapped THEN raw
                            ELSE [raw EXCEPT !.account = id_to_account[raw.account]]>>
                             \o r.entries,
              missing |-> r.missing]

\* the generator, run to its end: the entries it yields and missing_accounts afterwards
RECURSIVE get_converted_dwight_entries(_, _, _)
get_converted_dwight_entries(entries, id_to_account, missing) ==
    IF entries = <<>> THEN [entries |-> <<>>, missing |-> missing]
    ELSE LET raw == Head(entries)
         IN  IF raw.account \notin DOMAIN id_to_account
             THEN get_converted_dwight_entries(Tail(entries), id_to_account,
                                               missing \cup {raw.account})
             ELSE LET r == get_converted_dwight_entries(Tail(entries), id_to_account, missing)
                  IN  [entries |-> <<[raw EXCEPT !.account = id_to_account[raw.account]]>>
                                      \o r.entries,
                       missing |-> r.missing]

add_warning(dwight_account) ==
    [message |-> "No Beancount account associated with Dwight account", account |-> dwight_account]

\* the body of the balance loop for a raw_balance whose date has a next day
balance_import_result(raw_balance) ==
    LET date == timedelta_days1(raw_balance.date)[1]
    IN  ImportResult(date, get_info(raw_balance),
                     <<Balance(raw_balance.account, date, raw_balance.amount)>>)

OverflowError == <<[error |-> "date value out of range"]>>

\* for raw_balance in get_converted_dwight_entries(self.balances): the generator is
\* consumed as the loop goes, so the loop ends at the first date without a next day;
\* pending and missing are what results and missing_accounts hold at that point
RECURSIVE balance_loop(_, _, _, _)
balance_loop(bals, id_to_account, missing, pending) ==
    IF bals = <<>> THEN [pending |-> pending, missing |-> missing, raised |-> NoException]
    ELSE LET raw == Head(bals)
         IN  IF raw.account \notin DOMAIN id_to_account
             THEN balance_loop(Tail(bals), id_to_account, missing \cup {raw.account}, pending)
             ELSE IF timedelta_days1(raw.date) = <<>>
                  THEN [pending |-> pending, missing |-> missing, raised |-> OverflowError]
             ELSE balance_loop(Tail(bals), id_to_account, missing,
                      Append(pending,
                             balance_import_result(
                                 [raw EXCEPT !.account = id_to_account[raw.account]])))

\* missing_accounts when the generator yields its j-th entry: the accounts of the unmapped
\* entries before it
RECURSIVE missing_when_yielded(_, _, _, _)
missing_when_yielded(entries, id_to_account, missing, j) ==
    IF entries = <<>> THEN missing
    ELSE IF Head(entries).account \notin DOMAIN id_to_account
         THEN missing_when_yielded(Tail(entries), id_to_account,
                                   missing \cup {Head(entries).account}, j)
    ELSE IF j = 1 THEN missing
    ELSE missing_when_yielded(Tail(entries), id_to_account, missing, j - 1)

\* missing_accounts when the warning loop runs: what the transaction records added to it
missing_at_warning(entries, accts) ==
    get_converted_dwight_entries(entries, dwight_id_to_account(accts), {}).missing

\* the value of (results, missing_accounts) when prepare returns or raises, and the
\* exception if it raises (from make_import_result inside the reconciliation, before any
\* warning, or from the balance loop), given eng, what the reconciliation produced;
\* warning_order is the order in which the warning loop iterated the set missing_accounts
prepare_results(entries, bals, accts, warning_order, eng) ==
    LET id_to_account == dwight_id_to_account(accts)
        conv == get_converted_dwight_entries(entries, id_to_account, {})
        loop == balance_loop(bals, id_to_account, conv.missing, eng.pending)
    IN  IF eng.raised # NoException
        THEN [results |-> [pending |-> eng.pending, invalid |-> EmptyBag, warnings |-> <<>>],
              missing_accounts |->
                  missing_when_yielded(entries, id_to_account, {},
                                       Len(conv.entries) - eng.left + 1),
              raised |-> eng.raised]
        ELSE [results |-> [pending |-> loop.pending,
                           invalid |-> eng.invalid,
                           warnings |-> [i \in 1..Len(warning_order) |->
                                            add_warning(warning_order[i])]],
              missing_accounts |-> loop.missing,
              raised |-> loop.raised]

\* prepare: the reconciliation of the converted entries against the journal, then the
\* warnings and the balance loop
prepare(entries, bals, accts, journal_entries, warning_order) ==
    prepare_results(
        entries, bals, accts, warning_order,
        get_pending_and_invalid_entries(
            get_converted_dwight_entries(entries, dwight_id_to_account(accts), {}).entries,
            journal_entries, DOMAIN account_to_dwight_id(accts)))

----------------------------------------------------------------------------
(* Inputs *)

Row(date, description, amount, currency) ==
    [Date |-> date, Description |-> description, ZhanghaoWu |-> amount, Currency |-> currency]

\* the rows of the loader specification: valid and invalid dates, transaction and
\* balance descriptions, zero and non-zero amounts with and without a leading '-'
LoaderRows ==
    {Row(d, desc, <<"-", "2", ".", "4", "5">>, "USD") :
        d \in {<<2016, 8, 10>>, <<2016, 8, 9>>, <<2016, 2, 30>>},
        desc \in {"STARBUCKS", "Total balance"}}
    \cup {Row(<<2016, 8, 10>>, "STARBUCKS", <<"0", ".", "0", "0">>, "USD"),
          Row(<<2016, 8, 10>>, "Total balance", <<"-", "0", ".", "0", "0">>, "USD"),
          Row(<<2016, 8, 9>>, "STARBUCKS", <<"-", "0", ".", "0", "0">>, "USD")}

\* rows with other amount cells: empty, with a thousands separator, with three fraction
\* digits, with surrounding whitespace, a quiet and a signaling NaN, a number that the
\* unary minus rounds to zero (on a date that does not parse), one that it cannot hold,
\* and a literal too large for Decimal
OtherAmountRows ==
    {Row(<<2016, 8, 10>>, "STARBUCKS", <<>>, "USD"),
     Row(<<2016, 8, 9>>, "Total balance", <<"1", ",", "0", "0", "0", ".", "5", "0">>, "USD"),
     Row(<<2016, 8, 9>>, "STARBUCKS", <<"1", ".", "2", "3", "4">>, "USD"),
     Row(<<2016, 8, 9>>, "STARBUCKS", <<"\f", "5", "\t">>, "USD"),
     Row(<<2016, 8, 9>>, "STARBUCKS", <<"N", "a", "N">>, "USD"),
     Row(<<2016, 8, 10>>, "STARBUCKS", <<"s", "N", "a", "N">>, "USD"),
     Row(<<2016, 2, 30>>, "STARBUCKS",
         <<"-", "1", "e", "-", "1", "0", "0", "0", "0", "2", "7">>, "USD"),
     Row(<<2016, 8, 9>>, "STARBUCKS", <<"-", "1", "e", "1", "0", "0", "0", "0", "0", "0">>, "USD"),
     Row(<<2016, 8, 9>>, "STARBUCKS",
         <<"1", "e", "1", "0", "0", "0", "0", "0", "0", "0", "0", "0", "0", "0", "0", "0",
           "0", "0", "0", "0", "0">>, "USD")}

\* the files of the loader specification: rows of LoaderRows, the last of them possibly
\* a row of OtherAmountRows
LoaderFiles(n) ==
    SeqsUpTo(LoaderRows, n)
        \cup {Append(f, r) : f \in SeqsUpTo(LoaderRows, n - 1), r \in OtherAmountRows}

other_field_names == <<"Date", "Description", "Category", "Cost", "Currency">>

\* the rows of the export in the reconciliation specification: two transactions, a date
\* that does not parse, a 'Total balance' row, an amount whose negation overflows, and a
\* NaN amount
MainRows ==
    {Row(<<2016, 8, 10>>, "STARBUCKS", <<"-", "2", ".", "4", "5">>, "USD"),
     Row(<<2016, 8, 9>>, "COFFEE", <<"2", ".", "4", "5">>, "USD"),
     Row(<<2016, 2, 30>>, "STARBUCKS", <<"-", "2", ".", "4", "5">>, "USD"),
     Row(<<2016, 8, 10>>, "Total balance", <<"-", "5", ".", "0", "0">>, "USD"),
     Row(<<2016, 8, 10>>, "BIG", <<"1", "e", "1", "0", "0", "0", "0", "0", "0">>, "USD"),
     Row(<<2016, 8, 9>>, "COFFEE", <<"N", "a", "N">>, "USD")}

\* the exports reconciled together with balances: of at most one row, or of a snapshot
\* and a transaction
BalanceRunExports ==
    SeqsUpTo(MainRows, 1)
        \cup {<<Row(<<2016, 8, 10>>, "Total balance", <<"-", "5", ".", "0", "0">>, "USD"),
                Row(<<2016, 8, 9>>, "COFFEE", <<"2", ".", "4", "5">>, "USD")>>}

\* CSV files of balances: snapshots on an ordinary day, on the last day of February and
\* on the last day a date can hold, a row that is no snapshot, a snapshot whose date
\* does not parse, and a file with another header
BalanceFiles ==
    {File(expected_field_names,
          <<Row(<<2016, 8, 10>>, "Total balance", <<"-", "5", ".", "0", "0">>, "USD")>>),
     File(expected_field_names,
          <<Row(<<2016, 8, 10>>, "STARBUCKS", <<"-", "2", ".", "4", "5">>, "USD"),
            Row(<<2016, 2, 28>>, "Total balance", <<"5">>, "EUR"),
            Row(<<2016, 8, 10>>, "Total balance", <<"-", "5", ".", "0", "0">>, "USD")>>),
     File(expected_field_names,
          <<Row(<<9999, 12, 31>>, "Total balance", <<"5">>, "USD")>>),
     File(expected_field_names,
          <<Row(<<2016, 8, 10>>, "Total balance", <<"-", "5", ".", "0", "0">>, "USD"),
            Row(<<9999, 12, 31>>, "Total balance", <<"5">>, "USD"),
            Row(<<2016, 2, 28>>, "Total balance", <<"5">>, "EUR")>>),
     File(expected_field_names,
          <<Row(<<2016, 2, 30>>, "Total balance", <<"5">>, "USD")>>),
     File(other_field_names, <<>>)}

\* balances_directory and what it names: the directory of the export (as the module's
\* docstring configures it), the export file itself, or a CSV file of balances
BalancesOptions(export) ==
    {<<<<"data/dwight">>, Directory>>,
     <<<<filename>>, File(expected_field_names, export)>>}
    \cup {<<<<"data/dwight/balances.csv">>, f>> : f \in BalanceFiles}

\* a ledger transaction as an accepted draft leaves it
LedgerTxn(account, cell, amt, desc) ==
    _make_import_result(
        DwightEntry(account, strptime(cell), Amount(amt, "USD"), desc, abspath(filename), 1)
    ).entries[1]

LedgerOptions ==
    <<LedgerTxn("Assets:ZL", <<2016, 8, 10>>, Finite(0 - 245, 0 - 2), "STARBUCKS"),
      LedgerTxn("Assets:ZL", <<2016, 8, 11>>, Finite(0 - 245, 0 - 2), "STARBUCKS"),
      LedgerTxn("Assets:Other", <<2016, 8, 10>>, Finite(0 - 245, 0 - 2), "STARBUCKS")>>

\* ledgers of at most n of these transactions, one per multiset
Ledgers(n) ==
    {[i \in DOMAIN ix |-> LedgerOptions[ix[i]]] :
        ix \in {q \in SeqsUpTo(DOMAIN LedgerOptions, n) :
                   \A i \in DOMAIN q : i = 1 \/ q[i - 1] <= q[i]}}

AccountOptions ==
    {[a \in {"Assets:ZL", "Assets:Other"} |-> IF a = "Assets:ZL" THEN "Zhuohan Li" ELSE "Other"],
     [a \in {"Assets:ZL", "Assets:Other"} |-> IF a = "Assets:ZL" THEN "Zhuohan Li" ELSE NoId],
     [a \in {"Assets:ZL", "Assets:Other"} |-> IF a = "Assets:ZL" THEN NoId ELSE "Other"]}

EmptyResults == [pending |-> <<>>, invalid |-> EmptyBag, warnings |-> <<>>]

----------------------------------------------------------------------------
(* The loaders called on a file *)

InitLoad ==
    /\ \/ fieldnames = expected_field_names /\ csvfile \in LoaderFiles(MaxRows)
       \/ fieldnames = other_field_names /\ csvfile \in LoaderFiles(1)
    /\ balances_directory = <<>>
    /\ balances_csv = Directory
    /\ accounts \in {[a \in {"Assets:ZL"} |-> "Zhuohan Li"]}
    /\ journal = <<>>
    /\ dwight_entries = <<>>
    /\ balances = <<>>
    /\ raised = [t |-> NoException, b |-> NoException, p |-> NoException]
    /\ called = [t |-> FALSE, b |-> FALSE]
    /\ pc = "new"
    /\ results = EmptyResults
    /\ missing_accounts = {}
    /\ run = 0
    /\ accepted = FALSE

CallLoadTransactions ==
    /\ ~called.t
    /\ \E r \in {load_transactions(fieldnames, csvfile)} :
           /\ dwight_entries' = r.entries
           /\ raised' = [raised EXCEPT !.t = r.raised]
    /\ called' = [called EXCEPT !.t = TRUE]
    /\ UNCHANGED <<fieldnames, csvfile, balances_directory, balances_csv, accounts, journal,
                   balances, pc, results, missing_accounts, run, accepted>>

CallLoadBalances ==
    /\ ~called.b
    /\ \E r \in {load_balances(filename, File(fieldnames, csvfile))} :
           /\ balances' = r.entries
           /\ raised' = [raised EXCEPT !.b = r.raised]
    /\ called' = [called EXCEPT !.b = TRUE]
    /\ UNCHANGED <<fieldnames, csvfile, balances_directory, balances_csv, accounts, journal,
                   dwight_entries, pc, results, missing_accounts, run, accepted>>

NextLoad == CallLoadTransactions \/ CallLoadBalances

SpecLoad == InitLoad /\ [][NextLoad]_vars

----------------------------------------------------------------------------
(* The source: construction, prepare, and the review workflow accepting proposals. *)
(* A source is configured without balances, on any export and ledger, or with        *)
(* balances, on one of a few exports and a ledger of at most one transaction.        *)

Init ==
    /\ fieldnames = expected_field_names
    /\ \/ /\ csvfile \in SeqsUpTo(MainRows, MaxMainRows)
          /\ balances_directory = <<>>
          /\ balances_csv = Directory
          /\ journal \in Ledgers(MaxLedger)
       \/ /\ csvfile \in BalanceRunExports
          /\ \E o \in BalancesOptions(csvfile) :
                 balances_directory = o[1] /\ balances_csv = o[2]
          /\ journal \in Ledgers(1)
    /\ accounts \in AccountOptions
    /\ dwight_entries = <<>>
    /\ balances = <<>>
    /\ raised = [t |-> NoException, b |-> NoException, p |-> NoException]
    /\ called = [t |-> FALSE, b |-> FALSE]
    /\ pc = "new"
    /\ results = EmptyResults
    /\ missing_accounts = {}
    /\ run = 0
    /\ accepted = FALSE

\* DwightSource.__init__: load_transactions(filename), then, when balances_directory is
\* given, load_balances(balances_directory)
Construct ==
    /\ pc = "new"
    /\ \E t \in {load_transactions(fieldnames, csvfile)} :
       \E b \in {IF balances_directory # <<>> /\ t.raised = NoException
                  THEN load_balances(balances_directory[1], balances_csv)
                  ELSE [entries |-> <<>>, raised |-> NoException]} :
           /\ dwight_entries' = t.entries
           /\ balances' = b.entries
           /\ raised' = [t |-> t.raised, b |-> b.raised, p |-> NoException]
           /\ called' = [t |-> TRUE, b |-> balances_directory # <<>> /\ t.raised = NoException]
           /\ pc' = IF t.raised = NoException /\ b.raised = NoException
                    THEN "loaded" ELSE "failed"
    /\ UNCHANGED <<fieldnames, csvfile, balances_directory, balances_csv, accounts, journal,
                   results, missing_accounts, run, accepted>>

\* DwightSource.prepare(journal, results) with a fresh SourceResults, on a constructed
\* source, any number of times; when prepare raises, results and missing_accounts stay as
\* they were at the raise
Prepare ==
    /\ pc \in {"loaded", "prepared", "prepare_raised", "accepted"}
    /\ run < MaxRuns
    /\ \E order \in Orderings(missing_at_warning(dwight_entries, accounts)) :
          \E r \in {prepare(dwight_entries, balances, accounts, journal, order)} :
              /\ results' = r.results
              /\ missing_accounts' = r.missing_accounts
              /\ raised' = [raised EXCEPT !.p = r.raised]
              /\ pc' = IF r.raised = NoException THEN "prepared" ELSE "prepare_raised"
    /\ run' = run + 1
    /\ UNCHANGED <<fieldnames, csvfile, balances_directory, balances_csv, accounts, journal,
                   dwight_entries, balances, called, accepted>>

\* the review workflow: the user accepts every pending proposal into the ledger
Accept ==
    /\ pc = "prepared"
    /\ journal' = journal \o [i \in 1..Len(results.pending) |-> results.pending[i].entries[1]]
    /\ pc' = "accepted"
    /\ accepted' = TRUE
    /\ UNCHANGED <<fieldnames, csvfile, balances_directory, balances_csv, accounts,
                   dwight_entries, balances, raised, called, results, missing_accounts, run>>

Next == Construct \/ Prepare \/ Accept

Spec == Init /\ [][Next]_vars

----------------------------------------------------------------------------
(* Properties of the loaders (specification SpecLoad) *)

\* the text of an amount cell denotes zero: nothing but '0' besides a sign and a point
ZeroText(cell) == cell # <<>> /\ \A i \in DOMAIN cell : cell[i] \in {"-", "+", "0", "."}

\* the text y-m-d names a day of the calendar (years 1901 to 2099)
CalendarDate(cell) ==
    /\ cell[1] \in 1901..2099
    /\ \/ cell[2] \in {1, 3, 5, 7, 8, 10, 12} /\ cell[3] \in 1..31
       \/ cell[2] \in {4, 6, 9, 11} /\ cell[3] \in 1..30
       \/ cell[2] = 2 /\ cell[3] \in 1..28
       \/ cell[2] = 2 /\ cell[3] = 29 /\ cell[1] % 4 = 0

LoadedT == called.t /\ raised.t = NoException

LoadedB == called.b /\ raised.b = NoException

\* the rows load_transactions does not skip, and those load_balances does not skip
\* the cell's number, as the loader reads it, is zero
ZeroAmount(cell) == read_number(cell) = ZERO

KeptT == {i \in DOMAIN csvfile :
             ~ZeroAmount(csvfile[i].ZhanghaoWu) /\ csvfile[i].Description # "Total balance"}

KeptB == {i \in DOMAIN csvfile : csvfile[i].Description = "Total balance"}

LinesOf(records) == {records[k].line : k \in DOMAIN records}

\* C5, as stated: a row whose amount is zero appears neither in the sequence returned by
\* load_transactions nor in the sequence returned by load_balances.
C5_ZeroNeverLoaded ==
    \A i \in DOMAIN csvfile :
        ZeroText(csvfile[i].ZhanghaoWu) =>
            /\ i \notin LinesOf(dwight_entries)
            /\ i \notin LinesOf(balances)

\* C5, amended: a row whose amount is zero (with or without a leading '-') never appears
\* in the sequence returned by load_transactions, whatever its description, and no record
\* of that sequence has a zero amount; load_balances keeps every 'Total balance' row,
\* zero amounts included.
C5_ZeroFilteredFromTransactions ==
    /\ \A i \in DOMAIN csvfile :
           ZeroText(csvfile[i].ZhanghaoWu) => i \notin LinesOf(dwight_entries)
    /\ \A k \in DOMAIN dwight_entries :
           ~(dwight_entries[k].amount.number.kind = "finite"
               /\ dwight_entries[k].amount.number.digits = <<>>)
    /\ LoadedB => KeptB \subseteq LinesOf(balances)

C5_Witness ==
    /\ LoadedT /\ LoadedB
    /\ Len(dwight_entries) >= 1
    /\ \E i, j \in DOMAIN csvfile :
           /\ csvfile[i].ZhanghaoWu = <<"0", ".", "0", "0">>
           /\ csvfile[i].Description = "STARBUCKS"
           /\ csvfile[j].ZhanghaoWu = <<"-", "0", ".", "0", "0">>
           /\ csvfile[j].Description = "Total balance"
           /\ j \in LinesOf(balances)

\* C6, as stated: a date that does not parse, in any row of the file, makes the load fail
\* and return no records.
C6_AnyBadDateFails ==
    (\E i \in DOMAIN csvfile : ~CalendarDate(csvfile[i].Date)) =>
        /\ called.t => raised.t # NoException /\ dwight_entries = <<>>
        /\ called.b => raised.b # NoException /\ balances = <<>>

\* C6, amended: a date that does not parse in a row the loader does not skip (for
\* load_transactions a row whose amount does not read as zero, not described 'Total balance', for
\* load_balances a row described 'Total balance') makes the load fail and return no records;
\* a load that succeeds returns one record for every row it does not skip.
C6_BadDateInKeptRowFails ==
    /\ called.t =>
          /\ (\E i \in KeptT : csvfile[i].ZhanghaoWu # <<>> /\ ~CalendarDate(csvfile[i].Date))
                 => raised.t # NoException /\ dwight_entries = <<>>
          /\ raised.t = NoException =>
                 LinesOf(dwight_entries) = KeptT /\ Len(dwight_entries) = Cardinality(KeptT)
          /\ raised.t # NoException => dwight_entries = <<>>
    /\ called.b =>
          /\ (\E i \in KeptB : ~CalendarDate(csvfile[i].Date))
                 => raised.b # NoException /\ balances = <<>>
          /\ raised.b = NoException =>
                 LinesOf(balances) = KeptB /\ Len(balances) = Cardinality(KeptB)
          /\ raised.b # NoException => balances = <<>>

C6_Witness ==
    /\ called.t /\ called.b
    /\ raised.t # NoException /\ raised.b = NoException
    /\ Len(csvfile) = 3
    /\ ~CalendarDate(csvfile[3].Date) /\ 3 \in KeptT
    /\ 1 \in KeptT /\ CalendarDate(csvfile[1].Date)
    /\ 2 \in KeptB

\* C9: the sequence returned by load_transactions is ascending by date, two records of the
\* same date are in the reverse of their row order, and the records are exactly the rows
\* not skipped, each once and with its row's cells.
C9_LoaderOrdering ==
    LoadedT =>
        /\ \A i, j \in DOMAIN dwight_entries :
               i < j =>
                   /\ ~DateLT(dwight_entries[j].date, dwight_entries[i].date)
                   /\ dwight_entries[i].date = dwight_entries[j].date
                          => dwight_entries[i].line > dwight_entries[j].line
        /\ LinesOf(dwight_entries) = KeptT
        /\ Len(dwight_entries) = Cardinality(KeptT)
        /\ \A k \in DOMAIN dwight_entries :
               LET e == dwight_entries[k]
                   row == csvfile[e.line]
               IN  /\ <<e.date.year, e.date.month, e.date.day>> = row.Date
                   /\ e.source_desc = row.Description

C9_Witness ==
    /\ LoadedT
    /\ Len(dwight_entries) = 3
    /\ csvfile[1].Date = <<2016, 8, 10>>
    /\ csvfile[2].Date = <<2016, 8, 9>>
    /\ csvfile[3].Date = <<2016, 8, 10>>
    /\ dwight_entries[1].line = 2
    /\ dwight_entries[2].line = 3
    /\ dwight_entries[3].line = 1

----------------------------------------------------------------------------
(* Properties of reconciliation (specification Spec) *)

Prepared == pc = "prepared"

\* the external account identifier has a ledger account
Mapped(id) == \E a \in DOMAIN accounts : accounts[a] = id

LedgerAccount(id) == CHOOSE a \in DOMAIN accounts : accounts[a] = id

\* the match key (ledger account, date, amount, description) of a loaded record
RecordKey(e) == <<LedgerAccount(e.account), e.date, e.amount, e.source_desc>>

\* the match key a ledger posting carries in its metadata
PostingKey(p) == <<p.account, p.meta[1].date, p.units, p.meta[1].source_desc>>

\* the ledger's postings on mapped accounts that carry a key: (entry, posting) positions
LedgerPostings ==
    {ep \in (DOMAIN journal) \X {1, 2} :
        /\ journal[ep[1]].kind = "Transaction"
        /\ ep[2] \in DOMAIN journal[ep[1]].postings
        /\ journal[ep[1]].postings[ep[2]].meta # <<>>
        /\ journal[ep[1]].postings[ep[2]].account \in DOMAIN accounts
        /\ accounts[journal[ep[1]].postings[ep[2]].account] # NoId}

MappedRecords == {i \in DOMAIN dwight_entries : Mapped(dwight_entries[i].account)}

PendingDrafts == {i \in DOMAIN results.pending : results.pending[i].entries[1].kind = "Transaction"}

PendingBalances == {i \in DOMAIN results.pending : results.pending[i].entries[1].kind = "Balance"}

\* two keys are equal: tuple equality, under which an amount that is a NaN equals no
\* amount, itself included
SameKey(a, b) == a = b /\ a[3].number.kind # "nan"

\* N: the resolved records with key k;  M: the ledger postings with key k
NRecords(k) == Cardinality({i \in MappedRecords : SameKey(RecordKey(dwight_entries[i]), k)})

MPostings(k) ==
    Cardinality({ep \in LedgerPostings :
                    SameKey(PostingKey(journal[ep[1]].postings[ep[2]]), k)})

NPending(k) ==
    Cardinality({i \in PendingDrafts :
                    SameKey(PostingKey(results.pending[i].entries[1].postings[1]), k)})

NInvalid(k) == IF k[3].number.kind = "nan" THEN 0 ELSE CopiesIn(k, results.invalid)

\* the ledger postings, and the reported postings, whose key equals no key
NaNPostings ==
    {ep \in LedgerPostings : journal[ep[1]].postings[ep[2]].units.number.kind = "nan"}

NaNInvalid ==
    LET ks == {k \in BagToSet(results.invalid) : k[3].number.kind = "nan"}
        RECURSIVE Sum(_)
        Sum(S) == IF S = {} THEN 0
                  ELSE LET k == CHOOSE x \in S : TRUE
                       IN  CopiesIn(k, results.invalid) + Sum(S \ {k})
    IN  Sum(ks)

AllKeys ==
    {RecordKey(dwight_entries[i]) : i \in MappedRecords}
    \cup {PostingKey(journal[ep[1]].postings[ep[2]]) : ep \in LedgerPostings}
    \cup {PostingKey(results.pending[i].entries[1].postings[1]) : i \in PendingDrafts}
    \cup BagToSet(results.invalid)

\* prepare has run on the loaded export: it returned, or it raised part-way
PrepareRan == pc = "prepared" \/ pc = "prepare_raised"

\* C2: once reconciliation has run, for every key with N resolved records and M < N
\* ledger postings exactly N - M records are pending and no posting is invalid.
C2_PartialMatch ==
    PrepareRan =>
        \A k \in AllKeys :
            MPostings(k) < NRecords(k) =>
                /\ NPending(k) = NRecords(k) - MPostings(k)
                /\ NInvalid(k) = 0
C3_Witness ==
    /\ Prepared
    /\ \E k \in AllKeys : NRecords(k) = 1 /\ MPostings(k) = 2 /\ NInvalid(k) = 1

\* what the ledger would hold had the unmapped records not been in the export
WithoutUnmapped == SelectSeq(dwight_entries, LAMBDA e : Mapped(e.account))

\* C4: a transaction record whose account has no ledger mapping is named by exactly one
\* warning, no pending entry comes from its row, and the pending and invalid
\* classifications are those of the export without the unmapped records.
C4_UnmappedAccount ==
    Prepared =>
        /\ \A i \in DOMAIN dwight_entries :
               ~Mapped(dwight_entries[i].account) =>
                   /\ Cardinality({w \in DOMAIN results.warnings :
                                      results.warnings[w].account = dwight_entries[i].account}) = 1
                   /\ \A j \in DOMAIN results.pending :
                          results.pending[j].info.line # dwight_entries[i].line
        /\ \A order \in Orderings(missing_at_warning(WithoutUnmapped, accounts)) :
               LET r == prepare(WithoutUnmapped, balances, accounts, journal, order).results
               IN  r.pending = results.pending /\ r.invalid = results.invalid

C4_Witness ==
    /\ Prepared
    /\ Len(dwight_entries) = 2
    /\ \A i \in DOMAIN dwight_entries : ~Mapped(dwight_entries[i].account)
    /\ Len(results.warnings) = 1
    /\ results.pending = <<>>
    /\ results.invalid # EmptyBag

\* the key a draft's first posting will yield once the draft is in the ledger
DraftKey(e) ==
    LET p == _make_import_result([e EXCEPT !.account = LedgerAccount(e.account)])
                 .entries[1].postings[1]
    IN  _get_key_from_posting(<<>>, p, <<>>, p.meta[1].source_desc, p.meta[1].date)

\* the ledger's keyed postings on mapped accounts are the drafts of the export's records:
\* as many postings carry a draft's key as records have that draft
DraftsHeld ==
    \A k \in {DraftKey(dwight_entries[i]) : i \in MappedRecords}
            \cup {PostingKey(journal[ep[1]].postings[ep[2]]) : ep \in LedgerPostings} :
        Cardinality({ep \in LedgerPostings : PostingKey(journal[ep[1]].postings[ep[2]]) = k})
            = Cardinality({i \in MappedRecords : DraftKey(dwight_entries[i]) = k})

        /\ PendingDrafts = {}
        /\ results.invalid = EmptyBag

\* C7, as stated: once every proposal of an earlier run has been accepted, prepare proposes
\* no entry, draft transaction or balance assertion, that the ledger already holds.
C7_NoDuplicateOnReimport ==
    (Prepared /\ accepted) =>
        \A i \in DOMAIN results.pending :
            LET e == results.pending[i].entries[1]
            IN  ~\E j \in DOMAIN journal : journal[j].kind = e.kind /\ journal[j] = e

\* days from 2014-12-31, for the years 2015 to 2019
DaysBeforeMonth == <<0, 31, 59, 90, 120, 151, 181, 212, 243, 273, 304, 334>>

Ordinal(d) ==
    365 * (d.year - 2015) + (IF d.year > 2016 THEN 1 ELSE 0)
      + DaysBeforeMonth[d.month] + (IF d.year = 2016 /\ d.month > 2 THEN 1 ELSE 0)
      + d.day

\* the snapshot rows of the file balances_directory names
BalanceRows ==
    IF balances_directory = <<>> \/ balances_csv.kind # "file" THEN {}
    ELSE {i \in DOMAIN balances_csv.rows : balances_csv.rows[i].Description = "Total balance"}

ProposalsOfRow(i) == {j \in PendingBalances : results.pending[j].info.line = i}

\* prepare has run its balance loop, to its end or to an exception
PrepareDone == pc = "prepared" \/ (pc = "prepare_raised" /\ raised.p = OverflowError)

\* C8: once prepare has run, every balance snapshot row of a mapped account has yielded
\* exactly one balance assertion proposal, dated (proposal and assertion) the day after the
\* snapshot, on the resolved ledger account, with the snapshot's amount, file and row
\* number; nothing else yields one.  Fails for a snapshot dated 9999-12-31: the date has
\* no next day, prepare raises OverflowError, and neither that snapshot nor any after it
\* in the file is proposed.
C8_BalanceDateShift ==
    PrepareDone =>
        /\ \A i \in BalanceRows :
               Mapped("Zhuohan Li") =>
                   /\ Cardinality(ProposalsOfRow(i)) = 1
                   /\ \A j \in ProposalsOfRow(i) :
                          LET p == results.pending[j]
                              b == p.entries[1]
                              snap == strptime(balances_csv.rows[i].Date)
                          IN  /\ Ordinal(p.date) = Ordinal(snap) + 1
                              /\ CalendarDate(<<p.date.year, p.date.month, p.date.day>>)
                              /\ b.date = p.date
                              /\ b.account = LedgerAccount("Zhuohan Li")
                              /\ \E k \in DOMAIN balances :
                                     balances[k].line = i /\ balances[k].amount = b.amount
                              /\ b.amount.currency = balances_csv.rows[i].Currency
                              /\ p.info = [type |-> "text/csv",
                                           filename |-> abspath(balances_directory[1]),
                                           line |-> i]
        /\ Cardinality(PendingBalances)
               = IF Mapped("Zhuohan Li") THEN Cardinality(BalanceRows) ELSE 0

\* the external account identifiers of loaded records left out for want of a mapping
ExcludedIds ==
    {dwight_entries[i].account : i \in {j \in DOMAIN dwight_entries : ~Mapped(dwight_entries[j].account)}}
    \cup {balances[i].account : i \in {j \in DOMAIN balances : ~Mapped(balances[j].account)}}

\* C10, as stated: when prepare returns, every external account identifier of an excluded
\* record, transaction or balance snapshot, is named by a warning.
C10_EveryExclusionReported ==
    Prepared =>
        \A id \in ExcludedIds :
            \E w \in DOMAIN results.warnings : results.warnings[w].account = id

====
